---- MODULE Spec2Model ----
(***************************************************************************)
(* Model of the wallpaper palette generator (generate_palette.py): the     *)
(* outer main(), the extraction script it runs in the virtual environment  *)
(* (extract_palette, generate_terminal_colors, ensure_readable_colors,     *)
(* adjust_color_for_contrast) and the colour arithmetic they share.        *)
(*                                                                         *)
(* A colour is a triple <<r, g, b>>.  A Python string is a sequence of     *)
(* one-character strings, so that formatting, parsing and prefix tests are *)
(* computed and not assumed.  Floating-point luminance is carried in fixed *)
(* point: LumScale stands for 1.0.                                         *)
(***************************************************************************)
EXTENDS Integers, Sequences, FiniteSets, TLC

VARIABLES
    pc,              \* position of the outer main()
    args,            \* parsed command line of the outer main()
    temp_script,     \* TRUE while temp_extract_colors.py exists on disk
    proc,            \* outcome of the extraction subprocess as main() sees it
    files,           \* output files written so far
    generated_files, \* main()'s list of (theme type) entries
    ret,             \* exit status of the outer main()
    spc,             \* position of the extraction script's main()
    clusters,        \* (count, centroid) pairs obtained from k-means
    palette,         \* value returned by extract_palette
    scheme,          \* value returned by generate_terminal_colors
    colors,          \* value returned by ensure_readable_colors
    exit_status,     \* exit status of the extraction script
    stdout,          \* JSON document printed by the extraction script
    call             \* one call of adjust_color_for_contrast: arguments and result

vars == <<pc, args, temp_script, proc, files, generated_files, ret,
          spc, clusters, palette, scheme, colors, exit_status, stdout, call>>

mainVars   == <<pc, args, temp_script, proc, files, generated_files, ret>>
scriptVars == <<spc, clusters, palette, scheme, colors, exit_status, stdout>>

(***************************************************************************)
(* Bounds of the model.                                                    *)
(***************************************************************************)
\* largest number of pixel samples handed to k-means
MaxSamples == 3

\* Python's None, and a value that is not None: a variable that may hold None
\* holds None or Some(v)
None == <<>>
Some(v) == <<v>>

Min(a, b) == IF a <= b THEN a ELSE b
Max(a, b) == IF a >= b THEN a ELSE b

(***************************************************************************)
(* Strings.                                                                *)
(***************************************************************************)
\* the digits of "{:02X}": upper case
HexDigit_upper == <<"0", "1", "2", "3", "4", "5", "6", "7",
                    "8", "9", "A", "B", "C", "D", "E", "F">>

HexDigit == <<"0", "1", "2", "3", "4", "5", "6", "7",
              "8", "9", "a", "b", "c", "d", "e", "f">>

\* str.startswith
startswith(s, prefix) ==
    /\ Len(s) >= Len(prefix)
    /\ SubSeq(s, 1, Len(prefix)) = prefix

\* str.lstrip(ch)
RECURSIVE lstrip(_, _)
lstrip(s, ch) ==
    IF s # <<>> /\ Head(s) = ch THEN lstrip(Tail(s), ch) ELSE s

\* the digits of format(n, "x"), n >= 0
RECURSIVE HexDigits(_)
HexDigits(n) ==
    IF n < 16 THEN <<HexDigit[n + 1]>>
    ELSE HexDigits(n \div 16) \o <<HexDigit[(n % 16) + 1]>>

\* "{:02x}".format(n): at least two digits, zero padded, never truncated
Format02x(n) ==
    LET d == HexDigits(n) IN IF Len(d) < 2 THEN <<"0">> \o d ELSE d

\* int(s, 16) for a string of hex digits
RECURSIVE ParseHex(_)
ParseHex(s) ==
    IF s = <<>> THEN 0
    ELSE 16 * ParseHex(SubSeq(s, 1, Len(s) - 1))
         + ((CHOOSE i \in 1..16 : HexDigit[i] = s[Len(s)]) - 1)

rgb_to_hex(rgb) ==
    <<"#">> \o Format02x(rgb[1]) \o Format02x(rgb[2]) \o Format02x(rgb[3])

hex_to_rgb(hex_color) ==
    LET h == lstrip(hex_color, "#")
    IN  <<ParseHex(SubSeq(h, 1, 2)), ParseHex(SubSeq(h, 3, 4)),
          ParseHex(SubSeq(h, 5, 6))>>

(***************************************************************************)
(* Luminance and contrast, in fixed point.                                 *)
(***************************************************************************)
\* the fixed-point value of 1.0
LumScale == 100000

\* c/12.92 if c <= 0.03928 else ((c + 0.055)/1.055) ** 2.4 for c = i/255,
\* i = 0..255, in units of 1/LumScale (entry i + 1 is the value for i)
SRGB_LINEAR ==
    <<   0, 30, 61, 91, 121, 152, 182, 212,
     243, 273, 304, 335, 368, 402, 439, 478,
     518, 561, 605, 651, 700, 750, 802, 857,
     913, 972, 1033, 1096, 1161, 1229, 1298, 1370,
     1444, 1521, 1600, 1681, 1764, 1850, 1938, 2029,
     2122, 2217, 2315, 2416, 2519, 2624, 2732, 2843,
     2956, 3071, 3190, 3310, 3434, 3560, 3689, 3820,
     3955, 4092, 4231, 4374, 4519, 4667, 4817, 4971,
     5127, 5286, 5448, 5613, 5781, 5951, 6125, 6301,
     6480, 6663, 6848, 7036, 7227, 7421, 7619, 7819,
     8022, 8228, 8438, 8650, 8866, 9084, 9306, 9531,
     9759, 9990, 10224, 10462, 10702, 10946, 11193, 11444,
     11697, 11954, 12214, 12477, 12744, 13014, 13287, 13563,
     13843, 14126, 14413, 14703, 14996, 15293, 15593, 15896,
     16203, 16513, 16827, 17144, 17465, 17789, 18116, 18447,
     18782, 19120, 19462, 19807, 20156, 20508, 20864, 21223,
     21586, 21953, 22323, 22697, 23074, 23455, 23840, 24228,
     24620, 25016, 25415, 25818, 26225, 26636, 27050, 27468,
     27889, 28315, 28744, 29177, 29614, 30054, 30499, 30947,
     31399, 31855, 32314, 32778, 33245, 33716, 34191, 34670,
     35153, 35640, 36131, 36625, 37124, 37626, 38133, 38643,
     39157, 39676, 40198, 40724, 41254, 41789, 42327, 42869,
     43415, 43966, 44520, 45079, 45641, 46208, 46778, 47353,
     47932, 48515, 49102, 49693, 50289, 50888, 51492, 52100,
     52712, 53328, 53948, 54572, 55201, 55834, 56471, 57112,
     57758, 58408, 59062, 59720, 60383, 61050, 61721, 62396,
     63076, 63760, 64448, 65141, 65837, 66539, 67244, 67954,
     68669, 69387, 70110, 70838, 71569, 72306, 73046, 73791,
     74540, 75294, 76052, 76815, 77582, 78354, 79130, 79910,
     80695, 81485, 82279, 83077, 83880, 84687, 85499, 86316,
     87137, 87962, 88792, 89627, 90466, 91310, 92158, 93011,
     93869, 94731, 95597, 96469, 97345, 98225, 99110, 100000 >>

\* the weighted sum of c/255 itself, without the gamma rule
get_luminance_no_gamma(rgb) ==
    ((2126 * rgb[1] + 7152 * rgb[2] + 722 * rgb[3]) * (LumScale \div 10000))
      \div 255

\* weights with two digits of the green weight exchanged: 0.7512
get_luminance_weights(rgb) ==
    (2126 * SRGB_LINEAR[rgb[1] + 1] + 7512 * SRGB_LINEAR[rgb[2] + 1]
       + 722 * SRGB_LINEAR[rgb[3] + 1]) \div 10000

\* get_luminance: 0.2126 r + 0.7152 g + 0.0722 b, in units of 1/LumScale
get_luminance(rgb) ==
    (2126 * SRGB_LINEAR[rgb[1] + 1] + 7152 * SRGB_LINEAR[rgb[2] + 1]
       + 722 * SRGB_LINEAR[rgb[3] + 1]) \div 10000

\* the fixed-point value of a contrast ratio of 1.0
RatioScale == 10000

\* (lum1 + 0.05) / (lum2 + 0.05), the arguments taken in the order given
get_contrast_ratio_ordered(rgb1, rgb2) ==
    LET lum1 == get_luminance(rgb1)
        lum2 == get_luminance(rgb2)
        offset == LumScale \div 20
    IN  ((lum1 + offset) * RatioScale) \div (lum2 + offset)

\* get_contrast_ratio: (lighter + 0.05) / (darker + 0.05), in units of
\* 1/RatioScale, rounded down
get_contrast_ratio(rgb1, rgb2) ==
    LET lum1 == get_luminance(rgb1)
        lum2 == get_luminance(rgb2)
        lighter == Max(lum1, lum2)
        darker == Min(lum1, lum2)
        offset == LumScale \div 20
    IN  ((lighter + offset) * RatioScale) \div (darker + offset)

(***************************************************************************)
(* adjust_color_for_contrast.                                              *)
(***************************************************************************)
\* max(0, min(255, c))
clamp(c) == Max(0, Min(255, c))

\* the state of the search before its first iteration
AdjustStart(color, lighten) ==
    [adjusted |-> color, step |-> 128, direction |-> IF lighten THEN 1 ELSE -1]

\* the candidate tried by one iteration
test_color(st) ==
    <<clamp(st.adjusted[1] + st.direction * st.step),
      clamp(st.adjusted[2] + st.direction * st.step),
      clamp(st.adjusted[3] + st.direction * st.step)>>

\* an iteration that keeps every candidate
AdjustIteration_always(st, background, target_ratio) ==
    [adjusted |-> test_color(st), step |-> st.step \div 2,
     direction |-> -st.direction]

\* an iteration that halves the step only after an accepted candidate
AdjustIteration_keep_step(st, background, target_ratio) ==
    IF get_contrast_ratio(test_color(st), background) >= target_ratio
    THEN [adjusted |-> test_color(st), step |-> st.step \div 2,
          direction |-> -st.direction]
    ELSE st

\* an iteration that keeps a candidate as soon as it improves on the best
\* colour so far
AdjustIteration_improving(st, background, target_ratio) ==
    IF get_contrast_ratio(test_color(st), background)
         > get_contrast_ratio(st.adjusted, background)
    THEN [adjusted |-> test_color(st), step |-> st.step \div 2,
          direction |-> -st.direction]
    ELSE [st EXCEPT !.step = st.step \div 2]

\* one iteration of the search loop
AdjustIteration(st, background, target_ratio) ==
    LET body(test) ==
            IF get_contrast_ratio(test, background) >= target_ratio
            THEN [adjusted |-> test, step |-> st.step \div 2,
                  direction |-> -st.direction]
            ELSE [st EXCEPT !.step = st.step \div 2]
    \* the argument is evaluated before the body, as Python does
    IN  CHOOSE r \in {body(test) : test \in {test_color(st)}} : TRUE

\* for _ in range(n)
RECURSIVE AdjustLoop(_, _, _, _)
AdjustLoop(st, n, background, target_ratio) ==
    IF n = 0 THEN st
    ELSE LET rest(next) == AdjustLoop(next, n - 1, background, target_ratio)
         IN  CHOOSE r \in {rest(next) : next \in
                     {AdjustIteration(st, background, target_ratio)}} : TRUE

\* a search that returns the last candidate it tried, accepted or not
adjust_color_for_contrast_last_tried(color, background, target_ratio, lighten) ==
    IF get_contrast_ratio(color, background) >= target_ratio THEN color
    ELSE test_color(AdjustLoop(AdjustStart(color, lighten), 7, background,
                               target_ratio))

adjust_color_for_contrast(color, background, target_ratio, lighten) ==
    IF get_contrast_ratio(color, background) >= target_ratio THEN color
    ELSE LET st == AdjustLoop(AdjustStart(color, lighten), 8, background,
                              target_ratio)
         IN  <<clamp(st.adjusted[1]), clamp(st.adjusted[2]),
               clamp(st.adjusted[3])>>

(***************************************************************************)
(* The scheme: a dictionary from key to hex string.                        *)
(***************************************************************************)
\* str(n) for 0 <= n
DecDigit == <<"0", "1", "2", "3", "4", "5", "6", "7", "8", "9">>

RECURSIVE str(_)
str(n) ==
    IF n < 10 THEN <<DecDigit[n + 1]>>
    ELSE str(n \div 10) \o <<DecDigit[(n % 10) + 1]>>

\* the key 'color<n>'
color(n) == <<"c", "o", "l", "o", "r">> \o str(n)

k_background == <<"b", "a", "c", "k", "g", "r", "o", "u", "n", "d">>
k_foreground == <<"f", "o", "r", "e", "g", "r", "o", "u", "n", "d">>
k_cursor == <<"c", "u", "r", "s", "o", "r">>
k_cursor_text_color ==
    <<"c", "u", "r", "s", "o", "r", "_", "t", "e", "x", "t", "_",
      "c", "o", "l", "o", "r">>
k_selection_background ==
    <<"s", "e", "l", "e", "c", "t", "i", "o", "n", "_",
      "b", "a", "c", "k", "g", "r", "o", "u", "n", "d">>
k_selection_foreground ==
    <<"s", "e", "l", "e", "c", "t", "i", "o", "n", "_",
      "f", "o", "r", "e", "g", "r", "o", "u", "n", "d">>

\* key.startswith('c') or key == 'foreground'
eligible_c_prefix(key) == startswith(key, <<"c">>) \/ key = k_foreground

\* every key is eligible, background included
eligible_all(key) == TRUE

\* the eligible keys and, with foreground, the keys that copy it
eligible_with_copies(key) ==
    \/ startswith(key, <<"c", "o", "l", "o", "r">>)
    \/ key \in {k_foreground, k_cursor, k_selection_foreground}

\* key.startswith('color') or key == 'foreground'
eligible(key) ==
    startswith(key, <<"c", "o", "l", "o", "r">>) \/ key = k_foreground

\* the WCAG AA threshold min_contrast = 4.5, in units of 1/RatioScale
min_contrast == (45 * RatioScale) \div 10

\* lighten = bg_lum >= 0.5: the direction chosen the other way round
lighten_for_light(background) == 2 * get_luminance(background) >= LumScale

\* bg_lum < 0.5
lighten_for(background) == 2 * get_luminance(background) < LumScale

ensure_readable_colors(cs, background) ==
    [key \in DOMAIN cs |->
        IF eligible(key)
        THEN LET entry(rgb) ==
                     IF get_contrast_ratio(rgb, background) < min_contrast
                     THEN CHOOSE h \in {rgb_to_hex(adjusted) : adjusted \in
                              {adjust_color_for_contrast(
                                   rgb, background, min_contrast,
                                   lighten_for(background))}} : TRUE
                     ELSE cs[key]
             IN  CHOOSE e \in {entry(rgb) : rgb \in {hex_to_rgb(cs[key])}} : TRUE
        ELSE cs[key]]

(***************************************************************************)
(* extract_palette.                                                        *)
(***************************************************************************)
\* the squared distance compared with the threshold itself
is_too_similar_squared(color1, color2, threshold) ==
    (color1[1] - color2[1]) * (color1[1] - color2[1])
      + (color1[2] - color2[2]) * (color1[2] - color2[2])
      + (color1[3] - color2[3]) * (color1[3] - color2[3])
      < threshold

\* distance < threshold, distance the Euclidean distance: compared on the
\* squares, which is the same for a threshold >= 0
is_too_similar(color1, color2, threshold) ==
    (color1[1] - color2[1]) * (color1[1] - color2[1])
      + (color1[2] - color2[2]) * (color1[2] - color2[2])
      + (color1[3] - color2[3]) * (color1[3] - color2[3])
      < threshold * threshold

\* an ascending sort that is reversed afterwards when reverse is asked for:
\* entries of equal key come out in reverse order
sort_then_reverse(seq, k, reverse) ==
    LET precedes(i, j) ==
            \/ seq[i][k] < seq[j][k]
            \/ seq[i][k] = seq[j][k] /\ i < j
        rank(i) == Cardinality({j \in 1..Len(seq) : precedes(j, i)}) + 1
        ascending == [p \in 1..Len(seq) |->
                         seq[CHOOSE i \in 1..Len(seq) : rank(i) = p]]
    IN  IF reverse
        THEN [p \in 1..Len(seq) |-> ascending[Len(seq) + 1 - p]]
        ELSE ascending

\* seq.sort(key=lambda x: x[k], reverse=reverse).  list.sort is stable, also
\* with reverse=True: entry i ends up behind exactly the entries that sort
\* strictly before it and the entries of equal key that precede it in seq
sort(seq, k, reverse) ==
    LET precedes(i, j) ==
            \/ IF reverse THEN seq[i][k] > seq[j][k] ELSE seq[i][k] < seq[j][k]
            \/ seq[i][k] = seq[j][k] /\ i < j
        rank(i) == Cardinality({j \in 1..Len(seq) : precedes(j, i)}) + 1
    IN  [p \in 1..Len(seq) |->
            seq[CHOOSE i \in 1..Len(seq) : rank(i) = p]]

\* the default of extract_palette's num_colors
num_colors_default == 16

\* a loop that ends at the first candidate that is too similar
RECURSIVE filter_palette_stop(_, _, _, _)
filter_palette_stop(pal, i, filtered_palette, num_colors) ==
    IF i > Len(pal) THEN filtered_palette
    ELSE IF \E j \in 1..Len(filtered_palette) :
                is_too_similar(pal[i], filtered_palette[j], 20)
         THEN filtered_palette
         ELSE IF Len(filtered_palette) + 1 >= num_colors
              THEN Append(filtered_palette, pal[i])
              ELSE filter_palette_stop(pal, i + 1,
                                       Append(filtered_palette, pal[i]),
                                       num_colors)

\* the loop that removes similar colors, from entry i of the sorted palette
RECURSIVE filter_palette(_, _, _, _)
filter_palette(pal, i, filtered_palette, num_colors) ==
    IF i > Len(pal) THEN filtered_palette
    ELSE IF \E j \in 1..Len(filtered_palette) :
                is_too_similar(pal[i], filtered_palette[j], 20)
         THEN filter_palette(pal, i + 1, filtered_palette, num_colors)
         ELSE IF Len(filtered_palette) + 1 >= num_colors
              THEN Append(filtered_palette, pal[i])
              ELSE filter_palette(pal, i + 1, Append(filtered_palette, pal[i]),
                                  num_colors)

\* extract_palette once k-means has returned color_counts
extract_palette(color_counts, num_colors) ==
    LET sorted == sort(color_counts, 1, TRUE)
        pal == [i \in 1..Len(sorted) |-> sorted[i][2]]
    IN  filter_palette(pal, 1, <<>>, num_colors)

(***************************************************************************)
(* generate_terminal_colors.                                               *)
(***************************************************************************)
\* 8-bit addition that wraps instead of saturating
brightened_wrapping(base, brighten) ==
    <<(base[1] + brighten) % 256, (base[2] + brighten) % 256,
      (base[3] + brighten) % 256>>

\* tuple(min(255, c + brighten) for c in base)
brightened(base, brighten) ==
    <<Min(255, base[1] + brighten), Min(255, base[2] + brighten),
      Min(255, base[3] + brighten)>>

\* palette_with_lum without the sort
palette_with_lum_unsorted(pal) ==
    [i \in 1..Len(pal) |-> <<pal[i], get_luminance(pal[i])>>]

\* palette_with_lum after the sort by luminance
palette_with_lum(pal) ==
    sort([i \in 1..Len(pal) |-> <<pal[i], get_luminance(pal[i])>>], 2, FALSE)

darkest(pal) == palette_with_lum(pal)[1][1]
brightest(pal) == palette_with_lum(pal)[Len(pal)][1]

\* an index past the end falls back to the last entry
get_color_last(pal, idx, brighten) ==
    LET base == IF idx < Len(pal) THEN pal[idx + 1] ELSE pal[Len(pal)]
    IN  IF brighten > 0 THEN brightened(base, brighten) ELSE base

get_color(pal, idx, brighten) ==
    LET base == IF idx < Len(pal) THEN pal[idx + 1]
                ELSE pal[(idx % Len(pal)) + 1]
    IN  IF brighten > 0 THEN brightened(base, brighten) ELSE base

\* len(palette) < 1
palette_too_small_empty(pal) == Len(pal) < 1

\* len(palette) < 2
palette_too_small(pal) == Len(pal) < 2

\* the entries 'color0'..'color7' of the dictionary
standard_colors(pal, background, foreground) ==
       (color(0) :> rgb_to_hex(background))
    @@ (color(1) :> rgb_to_hex(get_color(pal, 1, 0)))
    @@ (color(2) :> rgb_to_hex(get_color(pal, 2, 0)))
    @@ (color(3) :> rgb_to_hex(get_color(pal, 3, 0)))
    @@ (color(4) :> rgb_to_hex(get_color(pal, 4, 0)))
    @@ (color(5) :> rgb_to_hex(get_color(pal, 5, 0)))
    @@ (color(6) :> rgb_to_hex(get_color(pal, 6, 0)))
    @@ (color(7) :> rgb_to_hex(foreground))

\* the entries 'color8'..'color15'
bright_colors(pal, background, foreground) ==
       (color(8) :> rgb_to_hex(brightened(background, 50)))
    @@ (color(9) :> rgb_to_hex(get_color(pal, 1, 30)))
    @@ (color(10) :> rgb_to_hex(get_color(pal, 2, 30)))
    @@ (color(11) :> rgb_to_hex(get_color(pal, 3, 30)))
    @@ (color(12) :> rgb_to_hex(get_color(pal, 4, 30)))
    @@ (color(13) :> rgb_to_hex(get_color(pal, 5, 30)))
    @@ (color(14) :> rgb_to_hex(get_color(pal, 6, 30)))
    @@ (color(15) :> rgb_to_hex(brightened(foreground, 30)))

\* the entries 'background'..'selection_foreground'
special_colors(background, foreground) ==
       (k_background :> rgb_to_hex(background))
    @@ (k_foreground :> rgb_to_hex(foreground))
    @@ (k_cursor :> rgb_to_hex(foreground))
    @@ (k_cursor_text_color :> rgb_to_hex(background))
    @@ (k_selection_background :> rgb_to_hex(brightened(background, 40)))
    @@ (k_selection_foreground :> rgb_to_hex(foreground))

generate_terminal_colors(pal) ==
    IF palette_too_small(pal) THEN None
    ELSE Some(standard_colors(pal, darkest(pal), brightest(pal))
              @@ bright_colors(pal, darkest(pal), brightest(pal))
              @@ special_colors(darkest(pal), brightest(pal)))

(***************************************************************************)
(* The extraction script's main().                                         *)
(***************************************************************************)
\* centroids the model lets k-means return: a dark colour, one at distance
\* exactly 20 from it, one closer than 20 to both, a saturated mid-tone and
\* two light greys
Centroids ==
    {<<10, 10, 10>>, <<30, 10, 10>>, <<20, 15, 12>>,
     <<200, 60, 60>>, <<200, 200, 200>>, <<240, 240, 240>>}

RECURSIVE SumCounts(_)
SumCounts(cc) == IF cc = <<>> THEN 0 ELSE Head(cc)[1] + SumCounts(Tail(cc))

\* what k-means can return for data_len samples: n_clusters (count, centroid)
\* pairs, every sample a member of exactly one cluster
KMeans(data_len, num_colors) ==
    LET n_clusters == Min(num_colors, data_len)
    IN  {cc \in [1..n_clusters -> (0..data_len) \X Centroids] :
            SumCounts(cc) = data_len}

\* the two values of the JSON document printed on success
result_json(pal, cs) ==
    [palette |-> [i \in 1..Len(pal) |-> rgb_to_hex(pal[i])],
     terminal_colors |-> cs]

ScriptInit ==
    /\ spc = "start"
    /\ clusters = <<>>
    /\ palette = None
    /\ scheme = None
    /\ colors = None
    /\ exit_status = None
    /\ stdout = None

\* palette = extract_palette(image_path), which returns the filtered palette
\* or, on any exception, None; then the check of line 388
ExtractPalette ==
    /\ spc = "start"
    /\ \/ /\ clusters' = <<>>
          /\ palette' = None
       \/ \E data_len \in 1..MaxSamples :
          \E cc \in KMeans(data_len, num_colors_default) :
            /\ clusters' = cc
            /\ palette' = Some(extract_palette(cc, num_colors_default))
    /\ IF palette' = None \/ palette'[1] = <<>>
       THEN spc' = "exited" /\ exit_status' = Some(1)
       ELSE spc' = "extracted" /\ exit_status' = exit_status
    /\ UNCHANGED <<scheme, colors, stdout, mainVars, call>>

\* colors = generate_terminal_colors(palette) and the check of line 396
GenerateTerminalColors ==
    /\ spc = "extracted"
    /\ scheme' = generate_terminal_colors(palette[1])
    /\ IF scheme' = None
       THEN spc' = "exited" /\ exit_status' = Some(1)
       ELSE spc' = "generated" /\ exit_status' = exit_status
    /\ UNCHANGED <<clusters, palette, colors, stdout, mainVars, call>>

\* colors = ensure_readable_colors(colors, hex_to_rgb(colors['background']))
EnsureReadableColors ==
    /\ spc = "generated"
    /\ \E background_rgb \in {hex_to_rgb(scheme[1][k_background])} :
          colors' = Some(ensure_readable_colors(scheme[1], background_rgb))
    /\ spc' = "ensured"
    /\ UNCHANGED <<clusters, palette, scheme, exit_status, stdout, mainVars,
                   call>>

\* print(json.dumps(result)) and the return from main()
PrintResult ==
    /\ spc = "ensured"
    /\ stdout' = Some(result_json(palette[1], colors[1]))
    /\ spc' = "exited"
    /\ exit_status' = Some(0)
    /\ UNCHANGED <<clusters, palette, scheme, colors, mainVars, call>>

\* the whole run of the script as its parent process sees it, from the value
\* extract_palette returned: what it left on stdout and its exit status
script_main(extracted) ==
    IF extracted = None \/ extracted[1] = <<>>
    THEN [palette |-> extracted, exit_status |-> 1, stdout |-> None]
    ELSE LET cs == generate_terminal_colors(extracted[1])
         IN  IF cs = None
             THEN [palette |-> extracted, exit_status |-> 1, stdout |-> None]
             ELSE [palette |-> extracted, exit_status |-> 0,
                   stdout |->
                       LET corrected(background_rgb) ==
                               ensure_readable_colors(cs[1], background_rgb)
                       IN  Some(result_json(extracted[1],
                                CHOOSE r \in {corrected(background_rgb) :
                                    background_rgb \in
                                    {hex_to_rgb(cs[1][k_background])}} : TRUE))]

\* every value extract_palette returns in the model
ExtractedPalettes ==
    {None} \cup
    {Some(extract_palette(cc, num_colors_default)) :
        cc \in UNION {KMeans(data_len, num_colors_default) :
                         data_len \in 1..MaxSamples}}

\* every run of the script the model considers
ScriptRuns == {script_main(extracted) : extracted \in ExtractedPalettes}

(***************************************************************************)
(* The outer main().                                                       *)
(***************************************************************************)
\* values of --colors the model passes: the default and a smaller request
RequestedColors == {2, 16}

\* image_path is absent, an ordinary path, or a path with a '{' in it
ArgSet ==
    [colors : RequestedColors, tmux : BOOLEAN, nvim : BOOLEAN, all : BOOLEAN,
     setup_only : BOOLEAN, image_path : {"none", "plain", "brace"}]

generate_kitty(a) == ~(a.tmux \/ a.nvim) \/ a.all
generate_tmux_theme(a) == a.tmux \/ a.all
generate_nvim_theme(a) == a.nvim \/ a.all

\* run_command(cmd, capture_output=True): False when the command fails,
\* else what it printed
run_command(p) == IF p.exit_status # 0 THEN None ELSE p.stdout

MainInit ==
    /\ pc = "start"
    /\ args = None
    /\ temp_script = FALSE
    /\ proc = None
    /\ files = {}
    /\ generated_files = <<>>
    /\ ret = None

\* parse_args, setup_venv and the checks of the image path
Begin ==
    /\ pc = "start"
    /\ \E a \in ArgSet, setup_ok \in BOOLEAN, image_exists \in BOOLEAN :
        /\ args' = Some(a)
        /\ IF ~setup_ok THEN pc' = "done" /\ ret' = Some(1)
           ELSE IF a.setup_only THEN pc' = "done" /\ ret' = Some(0)
           ELSE IF a.image_path = "none" THEN pc' = "done" /\ ret' = Some(1)
           ELSE IF ~image_exists THEN pc' = "done" /\ ret' = Some(1)
           ELSE pc' = "create_script" /\ ret' = ret
    /\ UNCHANGED <<temp_script, proc, files, generated_files, scriptVars, call>>

\* a finally clause that unlinks the script only when the try block returns
finally_clause_on_return(exists, leaving) ==
    IF leaving = "raise" THEN exists ELSE FALSE

\* finally: if temp_script.exists(): temp_script.unlink()
\* whether the script exists afterwards, however the try block is left
finally_clause(exists, leaving) ==
    IF exists THEN FALSE ELSE exists

\* with open(temp_script, 'w') as f: f.write(script_content)
CreateScript ==
    /\ pc = "create_script"
    /\ \E ok \in BOOLEAN :
        IF ok THEN temp_script' = TRUE /\ pc' = "run"
        ELSE temp_script' = finally_clause(temp_script, "raise") /\ pc' = "raised"
    /\ UNCHANGED <<args, proc, files, generated_files, ret, scriptVars, call>>

\* run the script, then parse what it printed
RunScript ==
    /\ pc = "run"
    /\ \E p \in ScriptRuns :
        /\ proc' = Some(p)
        /\ IF run_command(p) = None
           THEN /\ pc' = "done" /\ ret' = Some(1)
                /\ temp_script' = finally_clause(temp_script, "return")
           ELSE IF args[1].image_path = "brace"
           THEN /\ pc' = "done" /\ ret' = Some(1)
                /\ temp_script' = finally_clause(temp_script, "return")
           ELSE pc' = "kitty" /\ ret' = ret /\ temp_script' = temp_script
    /\ UNCHANGED <<args, files, generated_files, scriptVars, call>>

\* one "if generate_...: ... with open(path, 'w') as f: f.write(config)"
WriteOutput(at, wanted, theme_type, next) ==
    /\ pc = at
    /\ IF wanted
       THEN \E ok \in BOOLEAN :
            IF ok
            THEN /\ files' = files \cup {theme_type}
                 /\ generated_files' = Append(generated_files, theme_type)
                 /\ pc' = next
                 /\ temp_script' = temp_script
            ELSE /\ pc' = "raised"
                 /\ temp_script' = finally_clause(temp_script, "raise")
                 /\ UNCHANGED <<files, generated_files>>
       ELSE /\ pc' = next
            /\ UNCHANGED <<files, generated_files, temp_script>>
    /\ UNCHANGED <<args, proc, ret, scriptVars, call>>

WriteKitty == WriteOutput("kitty", generate_kitty(args[1]), "Kitty", "tmux")
WriteTmux == WriteOutput("tmux", generate_tmux_theme(args[1]), "Tmux", "nvim")
WriteNvim ==
    WriteOutput("nvim", generate_nvim_theme(args[1]), "Neovim", "report")

\* the report, the finally clause and return 0
Finish ==
    /\ pc = "report"
    /\ temp_script' = finally_clause(temp_script, "return")
    /\ ret' = Some(0)
    /\ pc' = "done"
    /\ UNCHANGED <<args, proc, files, generated_files, scriptVars, call>>

MainIdle ==
    /\ pc = "idle"
    /\ args = None
    /\ temp_script = FALSE
    /\ proc = None
    /\ files = {}
    /\ generated_files = <<>>
    /\ ret = None

ScriptIdle ==
    /\ spc = "idle"
    /\ clusters = <<>>
    /\ palette = None
    /\ scheme = None
    /\ colors = None
    /\ exit_status = None
    /\ stdout = None

CallIdle == call = None

Init == MainInit /\ ScriptIdle /\ CallIdle

Next ==
    \/ Begin
    \/ CreateScript
    \/ RunScript
    \/ WriteKitty
    \/ WriteTmux
    \/ WriteNvim
    \/ Finish

\* a run of generate_palette.py
Spec == Init /\ [][Next]_vars

InitScript == ScriptInit /\ MainIdle /\ CallIdle

NextScript ==
    \/ ExtractPalette
    \/ GenerateTerminalColors
    \/ EnsureReadableColors
    \/ PrintResult

\* the extraction script, run on its own
SpecScript == InitScript /\ [][NextScript]_vars

(***************************************************************************)
(* adjust_color_for_contrast called on its own, as ensure_readable_colors  *)
(* calls it (target 4.5) but with either direction.                        *)
(***************************************************************************)
\* colours and backgrounds of the calls: the centroids, black, white and a
\* mid grey
CallColors ==
    Centroids \cup {<<0, 0, 0>>, <<128, 128, 128>>, <<255, 255, 255>>}

CallInit ==
    \E c \in CallColors, b \in CallColors, l \in BOOLEAN :
        call = Some([color |-> c, background |-> b, lighten |-> l,
                     result |-> None])

InitAdjust == CallInit /\ MainIdle /\ ScriptIdle

AdjustCall ==
    /\ call[1].result = None
    /\ call' = Some([call[1] EXCEPT !.result =
                        Some(adjust_color_for_contrast(
                                 call[1].color, call[1].background,
                                 min_contrast, call[1].lighten))])
    /\ UNCHANGED <<mainVars, scriptVars>>

NextAdjust == AdjustCall

SpecAdjust == InitAdjust /\ [][NextAdjust]_vars

(***************************************************************************)
(* adjust_color_for_contrast step by step: the early return, the 8 turns   *)
(* of the loop, the return.                                                *)
(***************************************************************************)
SearchInit ==
    \E c \in CallColors, b \in CallColors, l \in BOOLEAN :
        call = Some([color |-> c, background |-> b, lighten |-> l,
                     at |-> "enter", st |-> AdjustStart(c, l), n |-> 0,
                     result |-> None])

InitSearch == SearchInit /\ MainIdle /\ ScriptIdle

\* current_ratio >= target_ratio: return color; otherwise adjusted, step and
\* direction are set up and the loop is entered
SearchEnter ==
    /\ call[1].at = "enter"
    /\ call' = Some(
          IF get_contrast_ratio(call[1].color, call[1].background)
               >= min_contrast
          THEN [call[1] EXCEPT !.at = "returned",
                               !.result = Some(call[1].color)]
          ELSE [call[1] EXCEPT !.at = "loop"])
    /\ UNCHANGED <<mainVars, scriptVars>>

\* one turn of for _ in range(8)
SearchIterate ==
    /\ call[1].at = "loop"
    /\ call[1].n < 8
    /\ call' = Some([call[1] EXCEPT
                        !.st = AdjustIteration(@, call[1].background,
                                               min_contrast),
                        !.n = @ + 1])
    /\ UNCHANGED <<mainVars, scriptVars>>

\* return tuple(max(0, min(255, c)) for c in adjusted)
SearchReturn ==
    /\ call[1].at = "loop"
    /\ call[1].n = 8
    /\ call' = Some([call[1] EXCEPT
                        !.at = "returned",
                        !.result = Some(<<clamp(call[1].st.adjusted[1]),
                                          clamp(call[1].st.adjusted[2]),
                                          clamp(call[1].st.adjusted[3])>>)])
    /\ UNCHANGED <<mainVars, scriptVars>>

NextSearch ==
    \/ SearchEnter
    \/ SearchIterate
    \/ SearchReturn

SpecSearch == InitSearch /\ [][NextSearch]_vars

\* the call runs on until it returns: nothing in it waits
FairSpecSearch == SpecSearch /\ WF_vars(NextSearch)

(***************************************************************************)
(* The correction of one entry by ensure_readable_colors, step by step:    *)
(* the contrast test, the choice of the direction, and the search of       *)
(* adjust_color_for_contrast.                                              *)
(***************************************************************************)
CorrectInit ==
    \E c \in CallColors, b \in CallColors :
        call = Some([color |-> c, background |-> b, lighten |-> None,
                     at |-> "entry", st |-> None, n |-> 0, result |-> None])

InitCorrect == CorrectInit /\ MainIdle /\ ScriptIdle

\* contrast >= min_contrast: the entry is kept; otherwise lighten is taken
\* from the background and adjust_color_for_contrast, which cannot return
\* early for an entry below the target, sets up its search
CorrectEntry ==
    /\ call[1].at = "entry"
    /\ call' = Some(
          IF get_contrast_ratio(call[1].color, call[1].background)
               < min_contrast
          THEN [call[1] EXCEPT
                   !.at = "loop",
                   !.lighten = Some(lighten_for(call[1].background)),
                   !.st = AdjustStart(call[1].color,
                                      lighten_for(call[1].background))]
          ELSE [call[1] EXCEPT !.at = "kept",
                               !.result = Some(call[1].color)])
    /\ UNCHANGED <<mainVars, scriptVars>>

NextCorrect ==
    \/ CorrectEntry
    \/ SearchIterate
    \/ SearchReturn

SpecCorrect == InitCorrect /\ [][NextCorrect]_vars

(***************************************************************************)
(* The pixel filter of extract_palette, called on its own.                 *)
(***************************************************************************)
\* the longest pixel list of a call
MaxPixels == 3

\* pixels of the image: black, channel sums 9, 10, 745 and 746, a mid grey
Pixels ==
    {<<0, 0, 0>>, <<3, 3, 3>>, <<5, 5, 0>>, <<100, 100, 100>>,
     <<255, 255, 235>>, <<255, 255, 236>>}

\* data.sum(axis=1) for one row; the sum of uint8 values is taken in the
\* platform integer, so it does not wrap
row_sum(pixel) == pixel[1] + pixel[2] + pixel[3]

\* a filter that also drops the sums 10 and 745
mask_exclusive(data) ==
    [i \in 1..Len(data) |->
        ~((row_sum(data[i]) <= 10) \/ (row_sum(data[i]) >= 745))]

\* mask = ~((data.sum(axis=1) < 10) | (data.sum(axis=1) > 745))
mask(data) ==
    [i \in 1..Len(data) |->
        ~((row_sum(data[i]) < 10) \/ (row_sum(data[i]) > 745))]

\* data[m] for a boolean array m: the rows where m is True, in order
RECURSIVE boolean_index(_, _)
boolean_index(data, m) ==
    IF data = <<>> THEN <<>>
    ELSE IF Head(m) THEN <<Head(data)>> \o boolean_index(Tail(data), Tail(m))
         ELSE boolean_index(Tail(data), Tail(m))

\* the samples handed to KMeans: if mask.sum() > 0: data = data[mask]
filter_samples(data) ==
    LET m == mask(data)
    IN  IF Cardinality({i \in 1..Len(data) : m[i]}) > 0
        THEN boolean_index(data, m)
        ELSE data

PixelLists == UNION {[1..n -> Pixels] : n \in 0..MaxPixels}

SamplesInit ==
    \E px \in PixelLists : call = Some([pixels |-> px, data |-> None])

InitSamples == SamplesInit /\ MainIdle /\ ScriptIdle

FilterSamples ==
    /\ call[1].data = None
    /\ call' = Some([call[1] EXCEPT !.data = Some(filter_samples(call[1].pixels))])
    /\ UNCHANGED <<mainVars, scriptVars>>

NextSamples == FilterSamples

SpecSamples == InitSamples /\ [][NextSamples]_vars

(***************************************************************************)
(* extract_palette called on its own, from the clusters k-means returns    *)
(* for num_colors, with several values of num_colors.                      *)
(***************************************************************************)
\* values of the parameter num_colors: smaller than, equal to and larger
\* than the number of samples
NumColors == {1, 2, num_colors_default}

ExtractInit ==
    \E num_colors \in NumColors, data_len \in 1..MaxSamples :
    \E cc \in KMeans(data_len, num_colors) :
        call = Some([num_colors |-> num_colors, color_counts |-> cc,
                     result |-> None])

InitExtract == ExtractInit /\ MainIdle /\ ScriptIdle

ExtractCall ==
    /\ call[1].result = None
    /\ call' = Some([call[1] EXCEPT !.result =
                        Some(extract_palette(call[1].color_counts,
                                             call[1].num_colors))])
    /\ UNCHANGED <<mainVars, scriptVars>>

NextExtract == ExtractCall

SpecExtract == InitExtract /\ [][NextExtract]_vars

(***************************************************************************)
(* Two runs of the extraction script on the same image: k-means, seeded    *)
(* with random_state=42, returns the same clusters to both.                *)
(***************************************************************************)
\* runs that may see the clusters in any cluster-index order
RunOutcomes_any_order(cc) ==
    {script_main(Some(extract_palette([i \in 1..Len(cc) |-> cc[perm[i]]],
                                      num_colors_default))) :
        perm \in {f \in [1..Len(cc) -> 1..Len(cc)] :
                     \A i, j \in 1..Len(cc) : i # j => f[i] # f[j]}}

\* what a run of the script can leave, as its parent process sees it, once
\* k-means has returned the clusters cc
RunOutcomes(cc) ==
    {script_main(Some(extract_palette(cc, num_colors_default)))}

\* the centroids of the image both runs are given: three dark colours within
\* and at the similarity threshold of each other, and a light grey
TwoRunsCentroids ==
    {<<10, 10, 10>>, <<30, 10, 10>>, <<20, 15, 12>>, <<240, 240, 240>>}

TwoRunsInit ==
    \E data_len \in 1..MaxSamples :
    \E cc \in {c \in KMeans(data_len, num_colors_default) :
                  \A i \in 1..Len(c) : c[i][2] \in TwoRunsCentroids} :
        call = Some([color_counts |-> cc, first |-> None, second |-> None])

InitTwoRuns == TwoRunsInit /\ MainIdle /\ ScriptIdle

FirstRun ==
    /\ call[1].first = None
    /\ \E run \in RunOutcomes(call[1].color_counts) :
          call' = Some([call[1] EXCEPT !.first = Some(run)])
    /\ UNCHANGED <<mainVars, scriptVars>>

SecondRun ==
    /\ call[1].first # None
    /\ call[1].second = None
    /\ \E run \in RunOutcomes(call[1].color_counts) :
          call' = Some([call[1] EXCEPT !.second = Some(run)])
    /\ UNCHANGED <<mainVars, scriptVars>>

NextTwoRuns ==
    \/ FirstRun
    \/ SecondRun

SpecTwoRuns == InitTwoRuns /\ [][NextTwoRuns]_vars

(***************************************************************************)
(* transcribe.py: TranscriptionService.process_files, with                 *)
(* FileManager.validate_input_files.                                       *)
(***************************************************************************)
\* the longest list of input files
MaxFiles == 3

UpperCase == <<"A", "B", "C", "D", "E", "F", "G", "H", "I", "J", "K", "L", "M",
               "N", "O", "P", "Q", "R", "S", "T", "U", "V", "W", "X", "Y", "Z">>

LowerCase == <<"a", "b", "c", "d", "e", "f", "g", "h", "i", "j", "k", "l", "m",
               "n", "o", "p", "q", "r", "s", "t", "u", "v", "w", "x", "y", "z">>

\* a suffix compared as it is written
lower_identity(s) == s

\* str.lower
lower(s) ==
    [i \in 1..Len(s) |->
        IF \E n \in 1..26 : UpperCase[n] = s[i]
        THEN LowerCase[CHOOSE n \in 1..26 : UpperCase[n] = s[i]]
        ELSE s[i]]

SUPPORTED_EXTENSIONS == {<<".", "m", "p", "3">>}

\* the paths a command line can name, with what the file system answers for
\* each: path.exists(), path.is_file(), path.suffix, os.access(path, R_OK)
FileSystem ==
    {[path |-> "a.mp3", exists |-> TRUE, is_file |-> TRUE,
      suffix |-> <<".", "m", "p", "3">>, readable |-> TRUE],
     [path |-> "b.MP3", exists |-> TRUE, is_file |-> TRUE,
      suffix |-> <<".", "M", "P", "3">>, readable |-> TRUE],
     [path |-> "c.mp3", exists |-> FALSE, is_file |-> FALSE,
      suffix |-> <<".", "m", "p", "3">>, readable |-> FALSE],
     [path |-> "d.mp3", exists |-> TRUE, is_file |-> FALSE,
      suffix |-> <<".", "m", "p", "3">>, readable |-> TRUE],
     [path |-> "e.wav", exists |-> TRUE, is_file |-> TRUE,
      suffix |-> <<".", "w", "a", "v">>, readable |-> TRUE],
     [path |-> "f.mp3", exists |-> TRUE, is_file |-> TRUE,
      suffix |-> <<".", "m", "p", "3">>, readable |-> FALSE],
     [path |-> "g", exists |-> FALSE, is_file |-> FALSE,
      suffix |-> <<>>, readable |-> FALSE]}

\* the body of validate_input_files' loop for one path: the exception it
\* raises, or None
validate_path(file) ==
    IF ~file.exists THEN Some("FileNotFoundError")
    ELSE IF ~file.is_file THEN Some("ValueError")
    ELSE IF lower(file.suffix) \notin SUPPORTED_EXTENSIONS
         THEN Some("ValueError")
    ELSE IF ~file.readable THEN Some("ValueError")
    ELSE None

\* validate_input_files from entry i on: the list it returns, or the
\* exception it raises and the path it raises it for
RECURSIVE validate_input_files(_, _, _)
validate_input_files(file_paths, i, validated_files) ==
    IF i > Len(file_paths)
    THEN [raised |-> None, validated_files |-> validated_files]
    ELSE IF validate_path(file_paths[i]) # None
         THEN [raised |-> Some([type |-> validate_path(file_paths[i])[1],
                                from |-> "validate_input_files",
                                path |-> file_paths[i].path]),
               validated_files |-> <<>>]
         ELSE validate_input_files(file_paths, i + 1,
                                   Append(validated_files, file_paths[i].path))

InputLists == UNION {[1..n -> FileSystem] : n \in 0..MaxFiles}

\* a TranscriptionService about to run process_files(input_files)
ProcessInit ==
    \E input_files \in InputLists, batch_mode \in BOOLEAN :
        call = Some([input_files |-> input_files, batch_mode |-> batch_mode,
                     at |-> "validate", validated_files |-> <<>>, i |-> 0,
                     transcribed |-> <<>>, reported |-> <<>>,
                     results |-> <<>>, raised |-> None])

InitProcess == ProcessInit /\ MainIdle /\ ScriptIdle

\* validated_files = self.file_manager.validate_input_files(input_files)
ValidateInputFiles ==
    /\ call[1].at = "validate"
    /\ LET v == validate_input_files(call[1].input_files, 1, <<>>)
       IN  call' = Some(IF v.raised # None
                        THEN [call[1] EXCEPT !.at = "raised",
                                             !.raised = v.raised]
                        ELSE [call[1] EXCEPT
                                 !.at = "loop",
                                 !.validated_files = v.validated_files])
    /\ UNCHANGED <<mainVars, scriptVars>>

\* an error handler that never re-raises
propagates_never(batch_mode) == FALSE

\* if not self.config.batch_mode: raise
propagates(batch_mode) == ~batch_mode

\* one turn of the loop over validated_files: transcribe_file returns a
\* result or raises TranscriptionError, which is printed to stderr and, out
\* of batch mode, raised again
TranscribeFile ==
    /\ call[1].at = "loop"
    /\ call[1].i < Len(call[1].validated_files)
    /\ LET input_path == call[1].validated_files[call[1].i + 1]
       IN  \E ok \in BOOLEAN :
             call' = Some(
                IF ok
                THEN [call[1] EXCEPT
                         !.i = @ + 1,
                         !.transcribed = Append(@, input_path),
                         !.results = Append(@, input_path)]
                ELSE IF propagates(call[1].batch_mode)
                THEN [call[1] EXCEPT
                         !.at = "raised",
                         !.transcribed = Append(@, input_path),
                         !.reported = Append(@, input_path),
                         !.raised = Some([type |-> "TranscriptionError",
                                          from |-> "transcribe_file",
                                          path |-> input_path])]
                ELSE [call[1] EXCEPT
                         !.i = @ + 1,
                         !.transcribed = Append(@, input_path),
                         !.reported = Append(@, input_path)])
    /\ UNCHANGED <<mainVars, scriptVars>>

\* return results
ReturnResults ==
    /\ call[1].at = "loop"
    /\ call[1].i = Len(call[1].validated_files)
    /\ call' = Some([call[1] EXCEPT !.at = "returned"])
    /\ UNCHANGED <<mainVars, scriptVars>>

NextProcess ==
    \/ ValidateInputFiles
    \/ TranscribeFile
    \/ ReturnResults

SpecProcess == InitProcess /\ [][NextProcess]_vars

(***************************************************************************)
(* transcribe.py: main, around process_files and save_results.             *)
(***************************************************************************)
\* main() after parse_args: the files, --batch, whether -o/--output is given
TranscribeInit ==
    \E input_files \in InputLists, batch_mode \in BOOLEAN,
       output \in BOOLEAN :
        call = Some([input_files |-> input_files, batch_mode |-> batch_mode,
                     output |-> output, at |-> "main",
                     validated_files |-> <<>>, i |-> 0,
                     transcribed |-> <<>>, reported |-> <<>>,
                     results |-> <<>>, raised |-> None,
                     saved |-> <<>>, status |-> None])

InitTranscribe == TranscribeInit /\ MainIdle /\ ScriptIdle

\* if args.batch and not args.output: sys.exit(1); otherwise the service is
\* created and process_files is called
CheckBatchOutput ==
    /\ call[1].at = "main"
    /\ call' = Some(IF call[1].batch_mode /\ ~call[1].output
                    THEN [call[1] EXCEPT !.at = "exited", !.status = Some(1)]
                    ELSE [call[1] EXCEPT !.at = "validate"])
    /\ UNCHANGED <<mainVars, scriptVars>>

\* if results: service.save_results(results), which writes the results one
\* after the other and raises FileOutputError, caught by main, when a write
\* fails; else sys.exit(1)
SaveResults ==
    /\ call[1].at = "returned"
    /\ IF call[1].results = <<>>
       THEN call' = Some([call[1] EXCEPT !.at = "exited",
                                         !.status = Some(1)])
       ELSE \E written \in 0..Len(call[1].results) :
              call' = Some([call[1] EXCEPT
                              !.at = "exited",
                              !.saved = SubSeq(call[1].results, 1, written),
                              !.status =
                                  IF written = Len(call[1].results)
                                  THEN Some(0) ELSE Some(1)])
    /\ UNCHANGED <<mainVars, scriptVars>>

\* except (TranscriptionError, FileNotFoundError, ValueError): sys.exit(1)
ExitOnError ==
    /\ call[1].at = "raised"
    /\ call' = Some([call[1] EXCEPT !.at = "exited", !.status = Some(1)])
    /\ UNCHANGED <<mainVars, scriptVars>>

NextTranscribe ==
    \/ CheckBatchOutput
    \/ ValidateInputFiles
    \/ TranscribeFile
    \/ ReturnResults
    \/ SaveResults
    \/ ExitOnError

SpecTranscribe == InitTranscribe /\ [][NextTranscribe]_vars

(***************************************************************************)
(* AudioTranscriber.__init__: the engine and the device are chosen, then   *)
(* _load_model checks the disk space and loads the model.  Sizes are in    *)
(* tenths of a GB.                                                         *)
(***************************************************************************)
ModelNames == {"tiny", "base", "small", "medium", "large", "turbo"}

\* free space of the home directory, in tenths of a GB
FreeSpace == {0, 3, 6, 8, 12, 25, 40}

\* model_sizes.get(self.model_name, 1.0)
default_size == 10

model_sizes(model_name) ==
    CASE model_name = "tiny" -> 1
      [] model_name = "base" -> 2
      [] model_name = "small" -> 5
      [] model_name = "medium" -> 15
      [] model_name = "large" -> 30
      [] OTHER -> default_size

\* the 0.5 GB buffer
disk_buffer == 5

choose_engine(engine, faster_available) ==
    IF engine = "auto"
    THEN IF faster_available THEN "faster" ELSE "original"
    ELSE IF engine = "faster" /\ ~faster_available THEN "original"
    ELSE engine

\* hardware is what torch reports: "cuda", "mps" or "none"
get_optimal_device(engine, hardware) ==
    IF hardware = "cuda" THEN "cuda"
    ELSE IF engine = "faster" THEN "cpu"
    ELSE IF hardware = "mps" THEN "mps"
    ELSE "cpu"

\* what the try block of _check_disk_space raises: shutil.disk_usage may
\* fail (free = None), and too little space raises ModelLoadError
check_disk_space_try(model_name, free) ==
    IF free = None THEN Some("OSError")
    ELSE IF free[1] < model_sizes(model_name) + disk_buffer
    THEN Some("ModelLoadError")
    ELSE None

\* what _check_disk_space raises to its caller: "except Exception: pass"
\* handles whatever the try block raised, ModelLoadError included
check_disk_space(model_name, free) ==
    IF check_disk_space_try(model_name, free) # None
    THEN None
    ELSE None

LoadInit ==
    \E m \in ModelNames, e \in {"auto", "original", "faster"},
       d \in {"none", "cpu", "mps", "cuda"}, fa \in BOOLEAN,
       hw \in {"cuda", "mps", "none"},
       f \in {None} \cup {Some(x) : x \in FreeSpace} :
        call = Some([model_name |-> m, engine_arg |-> e, device_arg |-> d,
                     faster_available |-> fa, hardware |-> hw, free |-> f,
                     at |-> "init", engine |-> "none", device |-> "none",
                     model |-> None, attempts |-> 0, raised |-> None])

InitLoad == LoadInit /\ MainIdle /\ ScriptIdle

\* __init__ up to the call of _load_model
Construct ==
    /\ call[1].at = "init"
    /\ call' = Some([call[1] EXCEPT
            !.engine = choose_engine(call[1].engine_arg,
                                     call[1].faster_available),
            !.device =
                IF call[1].device_arg # "none" THEN call[1].device_arg
                ELSE get_optimal_device(
                         choose_engine(call[1].engine_arg,
                                       call[1].faster_available),
                         call[1].hardware),
            !.at = "check"])
    /\ UNCHANGED <<mainVars, scriptVars>>

\* self._check_disk_space(), inside the try block of _load_model
CheckDiskSpace ==
    /\ call[1].at = "check"
    /\ call' = Some(
           IF check_disk_space(call[1].model_name, call[1].free) # None
           THEN [call[1] EXCEPT !.at = "failed",
                                !.raised = Some("ModelLoadError")]
           ELSE [call[1] EXCEPT !.at = "load"])
    /\ UNCHANGED <<mainVars, scriptVars>>

\* WhisperModel(...) or whisper.load_model(...): it may load (downloading
\* the model if needed), fail, or fail with an MPS compatibility error
LoadWhisper ==
    /\ call[1].at = "load"
    /\ \E outcome \in {"loaded", "error", "mps_error"} :
        call' = Some(
           IF outcome = "loaded"
           THEN [call[1] EXCEPT !.at = "constructed",
                                !.attempts = @ + 1,
                                !.model = Some(IF call[1].engine = "faster"
                                               THEN "cpu"
                                               ELSE call[1].device)]
           ELSE IF /\ call[1].engine # "faster"
                   /\ call[1].device = "mps"
                   /\ outcome = "mps_error"
           THEN [call[1] EXCEPT !.at = "fallback",
                                !.attempts = @ + 1,
                                !.device = "cpu"]
           ELSE [call[1] EXCEPT !.at = "failed",
                                !.attempts = @ + 1,
                                !.raised = Some("ModelLoadError")])
    /\ UNCHANGED <<mainVars, scriptVars>>

\* the second whisper.load_model, on the CPU
LoadFallback ==
    /\ call[1].at = "fallback"
    /\ \E ok \in BOOLEAN :
        call' = Some(
           IF ok
           THEN [call[1] EXCEPT !.at = "constructed",
                                !.attempts = @ + 1,
                                !.model = Some("cpu")]
           ELSE [call[1] EXCEPT !.at = "failed",
                                !.attempts = @ + 1,
                                !.raised = Some("ModelLoadError")])
    /\ UNCHANGED <<mainVars, scriptVars>>

NextLoad ==
    \/ Construct
    \/ CheckDiskSpace
    \/ LoadWhisper
    \/ LoadFallback

\* the construction of an AudioTranscriber
SpecLoad == InitLoad /\ [][NextLoad]_vars

(***************************************************************************)
(* The spinner threads of a run of process_files: transcribe_file starts   *)
(* a ProgressSpinner for each file unless verbose, and the thread of a     *)
(* spinner runs _spin concurrently with the transcription.                 *)
(***************************************************************************)
\* frames a spinner thread prints before the model stops counting them
MaxFrames == 2

\* what happens to a file inside transcribe_file
FileOutcomes == {"ok", "info_fails", "transcribe_fails"}

SpinInit ==
    \E n \in 1..MaxFiles : \E o \in [1..n -> FileOutcomes] :
    \E b \in BOOLEAN, v \in BOOLEAN :
        call = Some([outcomes |-> o, batch_mode |-> b, verbose |-> v,
                     at |-> "loop", i |-> 1, spinner |-> 0,
                     threads |-> <<>>, transcribed |-> 0])

InitSpin == SpinInit /\ MainIdle /\ ScriptIdle

\* what process_files does with a TranscriptionError of transcribe_file
AfterError(c) ==
    IF c.batch_mode
    THEN [c EXCEPT !.at = "loop", !.i = @ + 1, !.spinner = 0]
    ELSE [c EXCEPT !.at = "raised", !.spinner = 0]

\* transcribe_file up to the call of the model: get_audio_info, then
\* "if not verbose: spinner = ProgressSpinner(...); spinner.start()"
StartFile ==
    /\ call[1].at = "loop"
    /\ call[1].i <= Len(call[1].outcomes)
    /\ call' = Some(
           IF call[1].outcomes[call[1].i] = "info_fails"
           THEN AfterError(call[1])
           ELSE IF call[1].verbose
           THEN [call[1] EXCEPT !.at = "transcribing", !.spinner = 0]
           ELSE [call[1] EXCEPT
                    !.at = "transcribing",
                    !.spinner = Len(call[1].threads) + 1,
                    !.threads = Append(@, [running |-> TRUE,
                                           alive |-> TRUE,
                                           frames |-> 0])])
    /\ UNCHANGED <<mainVars, scriptVars>>

\* self.model.transcribe(...): on an exception the except clause of
\* transcribe_file raises TranscriptionError at once
ModelTranscribe ==
    /\ call[1].at = "transcribing"
    /\ call' = Some(
           IF call[1].outcomes[call[1].i] = "transcribe_fails"
           THEN AfterError(call[1])
           ELSE [call[1] EXCEPT !.at = "transcribed"])
    /\ UNCHANGED <<mainVars, scriptVars>>

\* "if spinner: spinner.stop()", up to the join: self.running = False
StopSpinner ==
    /\ call[1].at = "transcribed"
    /\ call' = Some(
           IF call[1].spinner = 0
           THEN [call[1] EXCEPT !.at = "loop", !.i = @ + 1,
                                !.transcribed = @ + 1]
           ELSE [call[1] EXCEPT
                    !.at = "joining",
                    !.threads[call[1].spinner].running = FALSE])
    /\ UNCHANGED <<mainVars, scriptVars>>

\* self.thread.join() returns once the thread has ended; transcribe_file
\* then returns its result
JoinSpinner ==
    /\ call[1].at = "joining"
    /\ ~call[1].threads[call[1].spinner].alive
    /\ call' = Some([call[1] EXCEPT !.at = "loop", !.i = @ + 1,
                                    !.spinner = 0, !.transcribed = @ + 1])
    /\ UNCHANGED <<mainVars, scriptVars>>

\* one test of "while self.running" in the thread of a spinner, and the
\* frame it prints
Spin ==
    \E t \in 1..Len(call[1].threads) :
        /\ call[1].threads[t].alive
        /\ IF call[1].threads[t].running
           THEN /\ call[1].threads[t].frames < MaxFrames
                /\ call' = Some([call[1] EXCEPT
                                    !.threads[t].frames = @ + 1])
           ELSE call' = Some([call[1] EXCEPT !.threads[t].alive = FALSE])
        /\ UNCHANGED <<mainVars, scriptVars>>

\* the loop of process_files is over
EndLoop ==
    /\ call[1].at = "loop"
    /\ call[1].i > Len(call[1].outcomes)
    /\ call' = Some([call[1] EXCEPT !.at = "returned"])
    /\ UNCHANGED <<mainVars, scriptVars>>

NextSpin ==
    \/ StartFile
    \/ ModelTranscribe
    \/ StopSpinner
    \/ JoinSpinner
    \/ Spin
    \/ EndLoop

\* process_files with the spinner threads it starts
SpecSpin == InitSpin /\ [][NextSpin]_vars

(***************************************************************************)
(* Properties.                                                             *)
(***************************************************************************)
SchemeKeys ==
    {color(n) : n \in 0..15} \cup
    {k_background, k_foreground, k_cursor, k_cursor_text_color,
     k_selection_background, k_selection_foreground}

HexDigitSet == {"0", "1", "2", "3", "4", "5", "6", "7",
                "8", "9", "a", "b", "c", "d", "e", "f"}

\* '#' and six lowercase hex digits
IsHexColor(s) ==
    /\ Len(s) = 7
    /\ s[1] = "#"
    /\ \A i \in 2..7 : s[i] \in HexDigitSet

\* the script has run ensure_readable_colors
Ensured == spc \in {"ensured", "exited"} /\ colors # None

\* the script has run generate_terminal_colors on a palette it accepted
Generated == scheme # None

SqDistance(a, b) ==
    (a[1] - b[1]) * (a[1] - b[1]) + (a[2] - b[2]) * (a[2] - b[2])
      + (a[3] - b[3]) * (a[3] - b[3])

\* C1: for a palette of at least 2 entries, generate_terminal_colors followed
\* by ensure_readable_colors yields exactly the 22 keys color0..color15,
\* background, foreground, cursor, cursor_text_color, selection_background
\* and selection_foreground, each value '#' and six lowercase hex digits.
C1_Completeness ==
    (palette # None /\ Len(palette[1]) >= 2 /\ spc \in {"ensured", "exited"})
    => /\ colors # None
       /\ DOMAIN colors[1] = SchemeKeys
       /\ Cardinality(DOMAIN colors[1]) = 22
       /\ \A key \in DOMAIN colors[1] : IsHexColor(colors[1][key])

\* a degenerate 2-colour palette went through both steps, a slot was
\* corrected and a brightened slot was clamped at 255
C1_Witness ==
    /\ Ensured
    /\ Len(palette[1]) = 2
    /\ colors[1] # scheme[1]
    /\ colors[1][color(15)] = <<"#", "f", "f", "f", "f", "f", "f">>

\* C2: a correction of a colour whose contrast against the background is
\* below 4.5 never returns a colour of lower contrast than the one it was
\* given, whatever the direction.
C2_NeverDecreases ==
    (call # None /\ call[1].result # None
       /\ get_contrast_ratio(call[1].color, call[1].background) < min_contrast)
    => get_contrast_ratio(call[1].result[1], call[1].background)
         >= get_contrast_ratio(call[1].color, call[1].background)

\* a colour below the target was corrected, by darkening, to another colour
C2_Witness ==
    /\ call # None /\ call[1].result # None
    /\ get_contrast_ratio(call[1].color, call[1].background) < min_contrast
    /\ ~call[1].lighten
    /\ call[1].result[1] # call[1].color

\* C3: every two distinct entries of a palette returned by extract_palette
\* are at Euclidean distance >= 20 (squared distance >= 400).
C3_DedupInvariant ==
    palette # None =>
        \A i, j \in 1..Len(palette[1]) :
            i # j => SqDistance(palette[1][i], palette[1][j]) >= 400

\* a centroid was dropped as too similar, and two entries at distance
\* exactly 20 were both kept
C3_Witness ==
    /\ palette # None
    /\ Len(palette[1]) < Len(clusters)
    /\ \E i, j \in 1..Len(palette[1]) :
          SqDistance(palette[1][i], palette[1][j]) = 400

\* the output files the command line asks for
Requested ==
    {t \in {"Kitty", "Tmux", "Neovim"} :
        \/ t = "Kitty" /\ generate_kitty(args[1])
        \/ t = "Tmux" /\ generate_tmux_theme(args[1])
        \/ t = "Neovim" /\ generate_nvim_theme(args[1])}

\* the outer main() has ended, by a return or by an exception
Ended == pc \in {"done", "raised"}

\* C4: the palette of a run has at most as many entries as the --colors
\* option asked for.
C4_PaletteWithinRequest ==
    (proc # None /\ proc[1].palette # None)
    => Len(proc[1].palette[1]) <= args[1].colors

\* C5: when extract_palette returns None or an empty palette, or the palette
\* has fewer than 2 colours, the script exits non-zero without printing a
\* scheme and the outer main returns 1 with no output file written.
C5_HaltsBeforeScheme ==
    (proc # None
       /\ (proc[1].palette = None \/ Len(proc[1].palette[1]) < 2))
    => /\ proc[1].exit_status # 0
       /\ proc[1].stdout = None
       /\ pc = "done"
       /\ ret = Some(1)
       /\ files = {}
       /\ temp_script = FALSE

\* a run whose palette has exactly one colour ended, with all files asked for
C5_Witness ==
    /\ proc # None
    /\ proc[1].palette # None
    /\ Len(proc[1].palette[1]) = 1
    /\ args[1].all
    /\ pc = "done"

\* C6: when several output files are requested, a run that has ended has
\* written all of them or none of them.
C6_AllOrNothing ==
    (Ended /\ args # None /\ Cardinality(Requested) >= 2)
    => (files = {} \/ files = Requested)

\* C7: ensure_readable_colors keeps the set of keys, and changes a value only
\* under one of color0..color15 or foreground whose contrast against the
\* background is below 4.5.
C7_Frame ==
    Ensured =>
        LET background == hex_to_rgb(scheme[1][k_background])
        IN  /\ DOMAIN colors[1] = DOMAIN scheme[1]
            /\ \A key \in DOMAIN scheme[1] :
                  colors[1][key] # scheme[1][key]
                  => /\ key \in {color(n) : n \in 0..15} \cup {k_foreground}
                     /\ get_contrast_ratio(hex_to_rgb(scheme[1][key]),
                                           background) < min_contrast

\* one slot was corrected, while cursor_text_color, whose contrast is 1, and
\* a slot that already met 4.5 were not
C7_Witness ==
    /\ Ensured
    /\ colors[1][color(0)] # scheme[1][color(0)]
    /\ colors[1][k_cursor_text_color] = scheme[1][k_background]
    /\ \E n \in 1..15 :
          /\ colors[1][color(n)] = scheme[1][color(n)]
          /\ get_contrast_ratio(hex_to_rgb(scheme[1][color(n)]),
                                hex_to_rgb(scheme[1][k_background]))
               >= min_contrast

\* the entries of the accepted palette
PaletteSet == {palette[1][i] : i \in 1..Len(palette[1])}

\* C8: background and color0 are a palette entry of minimum luminance,
\* foreground and color7 one of maximum luminance.
C8_Anchors ==
    Generated =>
        LET background == hex_to_rgb(scheme[1][k_background])
            foreground == hex_to_rgb(scheme[1][k_foreground])
        IN  /\ background \in PaletteSet
            /\ foreground \in PaletteSet
            /\ scheme[1][color(0)] = scheme[1][k_background]
            /\ scheme[1][color(7)] = scheme[1][k_foreground]
            /\ \A p \in PaletteSet :
                  /\ get_luminance(background) <= get_luminance(p)
                  /\ get_luminance(p) <= get_luminance(foreground)

\* a palette of three whose most dominant entry is neither the darkest nor
\* the brightest
C8_Witness ==
    /\ Generated
    /\ Len(palette[1]) = 3
    /\ rgb_to_hex(palette[1][1]) # scheme[1][k_background]
    /\ rgb_to_hex(palette[1][1]) # scheme[1][k_foreground]

\* C9: for N in 1..6, colorN is palette[N] when N < len(palette) and
\* palette[N mod len(palette)] otherwise, and color(N+8) is that entry with
\* 30 added to each channel, clamped to 255.
C9_Slots ==
    Generated =>
        \A N \in 1..6 :
            LET len == Len(palette[1])
                base == palette[1][(IF N < len THEN N ELSE N % len) + 1]
            IN  /\ scheme[1][color(N)] = rgb_to_hex(base)
                /\ scheme[1][color(N + 8)] =
                       rgb_to_hex([i \in 1..3 |->
                                      IF base[i] + 30 > 255 THEN 255
                                      ELSE base[i] + 30])

\* a palette of three: color1 and color2 are indexed directly, color3 wraps
\* to the first entry, and a bright variant is clamped
C9_Witness ==
    /\ Generated
    /\ Len(palette[1]) = 3
    /\ scheme[1][color(3)] = rgb_to_hex(palette[1][1])
    /\ scheme[1][color(2)] # scheme[1][color(3)]
    /\ scheme[1][color(10)] = <<"#", "f", "f", "f", "f", "f", "f">>

\* rgb with n added to each channel, at most 255
Lightened(rgb, n) ==
    [i \in 1..3 |-> IF rgb[i] + n > 255 THEN 255 ELSE rgb[i] + n]

\* C10: color8 is background + 50, color15 is foreground + 30,
\* selection_background is background + 40 (clamped to 255), cursor and
\* selection_foreground are foreground, cursor_text_color is background.
C10_Derived ==
    Generated =>
        LET background == hex_to_rgb(scheme[1][k_background])
            foreground == hex_to_rgb(scheme[1][k_foreground])
        IN  /\ scheme[1][color(8)] = rgb_to_hex(Lightened(background, 50))
            /\ scheme[1][color(15)] = rgb_to_hex(Lightened(foreground, 30))
            /\ scheme[1][k_selection_background] =
                   rgb_to_hex(Lightened(background, 40))
            /\ scheme[1][k_cursor] = scheme[1][k_foreground]
            /\ scheme[1][k_selection_foreground] = scheme[1][k_foreground]
            /\ scheme[1][k_cursor_text_color] = scheme[1][k_background]

\* a scheme whose bright white is clamped and whose bright black is not
C10_Witness ==
    /\ Generated
    /\ scheme[1][k_foreground] = <<"#", "f", "0", "f", "0", "f", "0">>
    /\ scheme[1][color(15)] = <<"#", "f", "f", "f", "f", "f", "f">>
    /\ scheme[1][color(8)] = <<"#", "3", "c", "3", "c", "3", "c">>

\* C11: the samples handed to clustering are exactly the pixels of channel sum
\* 10..745, in order, when there is such a pixel, and all the pixels
\* otherwise; for a non-empty image they are never empty.
C11_Samples ==
    (call # None /\ call[1].data # None) =>
        LET px == call[1].pixels
            data == call[1].data[1]
            kept == {i \in 1..Len(px) :
                        /\ px[i][1] + px[i][2] + px[i][3] >= 10
                        /\ px[i][1] + px[i][2] + px[i][3] <= 745}
            nth(p) == CHOOSE i \in kept :
                          Cardinality({j \in kept : j < i}) = p - 1
        IN  /\ IF kept # {}
               THEN /\ Len(data) = Cardinality(kept)
                    /\ \A p \in 1..Len(data) : data[p] = px[nth(p)]
               ELSE data = px
            /\ px # <<>> => data # <<>>

\* pixels of sums 9, 10 and 746: only the one of sum 10 is kept
C11_Witness ==
    /\ call # None /\ call[1].data # None
    /\ call[1].pixels = <<<<3, 3, 3>>, <<5, 5, 0>>, <<255, 255, 236>>>>
    /\ call[1].data[1] = <<<<5, 5, 0>>>>

\* cluster i comes before cluster j in the order of dominance: a larger
\* membership count, or the same count and a smaller cluster index
Dominates(i, j) ==
    \/ clusters[i][1] > clusters[j][1]
    \/ clusters[i][1] = clusters[j][1] /\ i < j

\* the clusters of S in the order of dominance
Ordered(S) ==
    [p \in 1..Cardinality(S) |->
        CHOOSE i \in S : Cardinality({j \in S : Dominates(j, i)}) = p - 1]

\* the sets of clusters whose centroids, in the order of dominance, are the
\* palette
PaletteClusters ==
    {S \in SUBSET (1..Len(clusters)) :
        /\ Cardinality(S) = Len(palette[1])
        /\ \A p \in 1..Len(palette[1]) :
              palette[1][p] = clusters[Ordered(S)[p]][2]}

\* C12: the palette is a subsequence of the centroids sorted by descending
\* membership count, equal counts in cluster-index order; the counts do not
\* increase along the palette and its first entry is the most dominant
\* centroid.
C12_DominanceOrder ==
    palette # None =>
        /\ \E S \in PaletteClusters :
              \A p, q \in 1..Len(palette[1]) :
                  p < q => clusters[Ordered(S)[p]][1] >= clusters[Ordered(S)[q]][1]
        /\ \E i \in 1..Len(clusters) :
              /\ \A j \in 1..Len(clusters) : j # i => Dominates(i, j)
              /\ palette[1][1] = clusters[i][2]

\* the third cluster is the largest and moves to the front, the first two
\* have the same count and keep their order
C12_Witness ==
    /\ palette # None
    /\ Len(clusters) = 3
    /\ Len(palette[1]) = 3
    /\ clusters[1][1] = clusters[2][1]
    /\ clusters[2][1] < clusters[3][1]
    /\ clusters[1][2] # clusters[2][2]
    /\ palette[1] = <<clusters[3][2], clusters[1][2], clusters[2][2]>>

\* C13: walking the centroids in the order of dominance, a centroid is
\* accepted if and only if the palette is not yet full and its distance to
\* every entry accepted before it is >= 20; so a centroid left out before the
\* palette is full is closer than 20 to an entry accepted earlier.
C13_GreedyMaximal ==
    (call # None /\ call[1].result # None) =>
        LET cc == call[1].color_counts
            k == call[1].num_colors
            pal == call[1].result[1]
            n == Len(cc)
            before(i, j) == \/ cc[i][1] > cc[j][1]
                            \/ cc[i][1] = cc[j][1] /\ i < j
            \* the centroid at position t of the walk
            at(t) == cc[CHOOSE i \in 1..n :
                           Cardinality({j \in 1..n : before(j, i)}) = t - 1][2]
            nth(A, p) == CHOOSE t \in A :
                             Cardinality({u \in A : u < t}) = p - 1
        IN  \E A \in SUBSET (1..n) :
                /\ Len(pal) = Cardinality(A)
                /\ \A p \in 1..Len(pal) : pal[p] = at(nth(A, p))
                /\ \A t \in 1..n :
                      t \in A <=>
                          /\ Cardinality({a \in A : a < t}) < k
                          /\ \A a \in A :
                                a < t => SqDistance(at(a), at(t)) >= 400
                /\ \A t \in (1..n) \ A :
                      Cardinality({a \in A : a < t}) < k
                      => \E a \in A :
                            a < t /\ SqDistance(at(a), at(t)) < 400

\* of three centroids of equal count the second is closer than 20 to the
\* first and is left out, the third, at distance exactly 20, is accepted
C13_Witness ==
    /\ call # None /\ call[1].result # None
    /\ call[1].num_colors = 16
    /\ call[1].color_counts =
           <<<<1, <<10, 10, 10>>>>, <<1, <<20, 15, 12>>>>,
             <<1, <<30, 10, 10>>>>>>
    /\ call[1].result[1] = <<<<10, 10, 10>>, <<30, 10, 10>>>>

\* channel values at the ends of the range and on both sides of the
\* threshold 0.03928 (10/255 is below it, 11/255 above)
ChannelSamples == {0, 1, 10, 11, 128, 254, 255}

\* i/255/12.92 in units of 1/LumScale, rounded to nearest
LinearRule(i) == (2 * 100 * LumScale * i + 255 * 1292) \div (2 * 255 * 1292)

\* C14: get_luminance lies in [0,1] for channels in 0..255, is 0.0 for black
\* and 1.0 for white; a channel is c/12.92 up to 0.03928 (10/255) and follows
\* the power rule above it; the weights are 0.2126, 0.7152, 0.0722.
C14_LuminanceBounds ==
    /\ \A i \in 1..256 : SRGB_LINEAR[i] >= 0 /\ SRGB_LINEAR[i] <= LumScale
    /\ \A i \in 0..10 : SRGB_LINEAR[i + 1] = LinearRule(i)
    /\ SRGB_LINEAR[12] # LinearRule(11)
    /\ get_luminance(<<0, 0, 0>>) = 0
    /\ get_luminance(<<255, 255, 255>>) = LumScale
    /\ get_luminance(<<255, 0, 0>>) = (2126 * LumScale) \div 10000
    /\ get_luminance(<<0, 255, 0>>) = (7152 * LumScale) \div 10000
    /\ get_luminance(<<0, 0, 255>>) = (722 * LumScale) \div 10000
    /\ \A r, g, b \in ChannelSamples :
          /\ get_luminance(<<r, g, b>>) >= 0
          /\ get_luminance(<<r, g, b>>) <= LumScale
    /\ call # None =>
          /\ get_luminance(call[1].color) >= 0
          /\ get_luminance(call[1].color) <= LumScale
          /\ get_luminance(call[1].background) >= 0
          /\ get_luminance(call[1].background) <= LumScale

\* a call that measured white, of luminance 1.0, against black, of
\* luminance 0.0
C14_Witness ==
    /\ call # None /\ call[1].result # None
    /\ call[1].color = <<255, 255, 255>>
    /\ call[1].background = <<0, 0, 0>>
    /\ get_luminance(call[1].color) = LumScale
    /\ get_luminance(call[1].background) = 0

\* C15: get_contrast_ratio(A, B) = get_contrast_ratio(B, A), and the ratio is
\* at least 1.
C15_Symmetry ==
    /\ call # None =>
          /\ get_contrast_ratio(call[1].color, call[1].background)
               = get_contrast_ratio(call[1].background, call[1].color)
          /\ get_contrast_ratio(call[1].color, call[1].background)
               >= RatioScale
    /\ \A A \in CallColors, B \in CallColors :
          get_contrast_ratio(A, B) = get_contrast_ratio(B, A)

\* a call whose colour is darker than its background, at a ratio above 1
C15_Witness ==
    /\ call # None /\ call[1].result # None
    /\ get_luminance(call[1].color) < get_luminance(call[1].background)
    /\ get_contrast_ratio(call[1].color, call[1].background) > RatioScale

Scenario ==
    /\ Ensured
    /\ Len(palette[1]) = 2
    /\ PaletteSet = {<<10, 10, 10>>, <<240, 240, 240>>}

\* the contrast ratio of the scenario's background and foreground
ScenarioRatio ==
    get_contrast_ratio(hex_to_rgb(scheme[1][k_background]),
                       hex_to_rgb(scheme[1][k_foreground]))

\* background #0a0a0a, foreground #f0f0f0, also after the correction
ScenarioAnchors ==
    /\ scheme[1][k_background] = <<"#", "0", "a", "0", "a", "0", "a">>
    /\ scheme[1][k_foreground] = <<"#", "f", "0", "f", "0", "f", "0">>
    /\ colors[1][k_background] = scheme[1][k_background]
    /\ colors[1][k_foreground] = scheme[1][k_foreground]

\* C17, as stated: in the scenario with the centroids (10,10,10) and
\* (240,240,240) background is #0a0a0a, foreground is #f0f0f0 and is not
\* corrected, and their contrast ratio is approximately 16.8 (here: within
\* 0.5 of it) and at least 7.
C17_Scenario ==
    Scenario =>
        /\ ScenarioAnchors
        /\ ScenarioRatio >= 7 * RatioScale
        /\ ScenarioRatio >= (163 * RatioScale) \div 10
        /\ ScenarioRatio <= (173 * RatioScale) \div 10

\* C17, amended: the same scenario, with a contrast ratio of approximately
\* 17.4 (17.37, here: between 17.35 and 17.40).
C17_ScenarioAmended ==
    Scenario =>
        /\ ScenarioAnchors
        /\ ScenarioRatio >= 7 * RatioScale
        /\ ScenarioRatio >= (1735 * RatioScale) \div 100
        /\ ScenarioRatio <= (1740 * RatioScale) \div 100

\* the two centroids came with equal counts, the dark one first, and the
\* script printed the scheme
C17_Witness ==
    /\ Scenario
    /\ spc = "exited"
    /\ stdout # None
    /\ Len(clusters) = 2
    /\ clusters[1][1] = clusters[2][1]
    /\ palette[1][1] = <<10, 10, 10>>

\* the suffixes that are .mp3 whatever the case of their letters
Mp3Suffixes ==
    {<<".", m, p, "3">> : m \in {"m", "M"}, p \in {"p", "P"}}

\* an input that passes every check of the validation
ValidInput(file) ==
    /\ file.exists
    /\ file.is_file
    /\ file.suffix \in Mp3Suffixes
    /\ file.readable

\* C18: validate_input_files returns the path of every input, in input order,
\* only if every input exists, is a regular file, has the extension .mp3 in
\* any case and is readable; otherwise it raises for the first offending
\* input, FileNotFoundError if it does not exist and ValueError otherwise,
\* and process_files transcribes no file.
C18_AllOrNothing ==
    (call # None /\ call[1].at # "validate") =>
        LET inputs == call[1].input_files
            offending == {i \in 1..Len(inputs) : ~ValidInput(inputs[i])}
            first == CHOOSE i \in offending : \A j \in offending : i <= j
        IN  IF offending = {}
            THEN /\ call[1].validated_files =
                        [i \in 1..Len(inputs) |-> inputs[i].path]
                 /\ call[1].raised # None
                       => call[1].raised[1].from # "validate_input_files"
            ELSE /\ call[1].at = "raised"
                 /\ call[1].raised =
                        Some([type |-> IF inputs[first].exists
                                       THEN "ValueError"
                                       ELSE "FileNotFoundError",
                              from |-> "validate_input_files",
                              path |-> inputs[first].path])
                 /\ call[1].validated_files = <<>>
                 /\ call[1].transcribed = <<>>
                 /\ call[1].results = <<>>

\* a valid file, then a .wav file, then a missing one: ValueError for the
\* second, and the first is not transcribed
C18_Witness ==
    /\ call # None
    /\ call[1].at = "raised"
    /\ Len(call[1].input_files) = 3
    /\ call[1].input_files[1].path = "b.MP3"
    /\ call[1].input_files[2].path = "e.wav"
    /\ call[1].input_files[3].path = "c.mp3"
    /\ call[1].raised[1].type = "ValueError"
    /\ call[1].raised[1].path = "e.wav"
    /\ call[1].transcribed = <<>>

\* the step sizes of the 8 iterations, and the 0 left after the last
StepSizes == <<128, 64, 32, 16, 8, 4, 2, 1, 0>>

\* the loop is at step size number n + 1 after n iterations
StepsInOrder ==
    (call # None /\ call[1].at = "loop") =>
        /\ call[1].n \in 0..8
        /\ call[1].st.step = StepSizes[call[1].n + 1]

\* what an iteration does to the best colour, the direction and the step
IterationRule ==
    (call # None /\ call[1].at = "loop" /\ call'[1].at = "loop"
       /\ call' # call) =>
        LET st == call[1].st
            candidate == [i \in 1..3 |->
                             Max(0, Min(255, st.adjusted[i]
                                               + st.direction * st.step))]
            meets == get_contrast_ratio(candidate, call[1].background)
                       >= min_contrast
        IN  /\ call'[1].n = call[1].n + 1
            /\ call'[1].st.step = st.step \div 2
            /\ meets => /\ call'[1].st.adjusted = candidate
                        /\ call'[1].st.direction = -st.direction
            /\ ~meets => /\ call'[1].st.adjusted = st.adjusted
                         /\ call'[1].st.direction = st.direction

\* the loop is left only after its 8th iteration
LeavesAfterEight ==
    (call # None /\ call[1].at = "loop" /\ call'[1].at # "loop") =>
        call[1].n = 8 /\ call'[1].at = "returned"

\* C19: called on a colour below the target, adjust_color_for_contrast runs
\* exactly 8 iterations with the steps 128, 64, 32, 16, 8, 4, 2, 1 in that
\* order; a candidate is the best colour plus direction * step on every
\* channel, clamped; one that meets the target becomes the best colour and
\* flips the direction, one that does not leaves both; the step is halved
\* either way, and the call returns after the 8th iteration.
C19_Search ==
    /\ []StepsInOrder
    /\ [][IterationRule /\ LeavesAfterEight]_vars
    /\ <>(call # None /\ call[1].at = "returned")

\* a search returned after 8 iterations with a colour other than the one it
\* was given, its direction back to the initial one after an even number of
\* accepted candidates
C19_Witness ==
    /\ call # None
    /\ call[1].at = "returned"
    /\ call[1].n = 8
    /\ call[1].st.step = 0
    /\ call[1].result[1] # call[1].color
    /\ call[1].st.direction = (IF call[1].lighten THEN 1 ELSE -1)

\* the contrast ratio of a value of the corrected scheme against the
\* background of the scheme
RatioToBackground(value) ==
    get_contrast_ratio(hex_to_rgb(value), hex_to_rgb(scheme[1][k_background]))

\* C20: the colour adjust_color_for_contrast returns for an entry is the
\* entry's colour unchanged or a colour that meets the target, never another
\* colour that fails it; and an entry left below the target is no error: the
\* script still prints the scheme and exits with status 0.
C20_UnchangedOrMeets ==
    Ensured =>
        /\ \A key \in DOMAIN colors[1] :
              \/ colors[1][key] = scheme[1][key]
              \/ RatioToBackground(colors[1][key]) >= min_contrast
        /\ spc = "exited" =>
              /\ exit_status = Some(0)
              /\ stdout # None
              /\ stdout[1].terminal_colors = colors[1]

\* the script printed a scheme in which color0 was left below the target,
\* none of its 8 candidates having met it, while another entry was corrected
C20_Witness ==
    /\ Ensured
    /\ spc = "exited"
    /\ exit_status = Some(0)
    /\ colors[1][color(0)] = scheme[1][color(0)]
    /\ RatioToBackground(colors[1][color(0)]) < min_contrast
    /\ \E n \in 1..15 :
          /\ colors[1][color(n)] # scheme[1][color(n)]
          /\ RatioToBackground(colors[1][color(n)]) >= min_contrast

\* the search of an entry starts in the direction the background gives:
\* +1 for a background luminance below 0.5, -1 otherwise
DirectionFromBackground ==
    (call # None /\ call[1].at = "loop" /\ call[1].n = 0) =>
        /\ call[1].lighten
             = Some(2 * get_luminance(call[1].background) < LumScale)
        /\ call[1].st.direction
             = (IF 2 * get_luminance(call[1].background) < LumScale
                THEN 1 ELSE -1)

\* during the search the direction changes only by the flip that comes with
\* an accepted candidate, and lighten is not chosen again
DirectionFlipsOnAccept ==
    (call # None /\ call[1].at = "loop" /\ call' # call) =>
        /\ call'[1].lighten = call[1].lighten
        /\ call'[1].st.direction # call[1].st.direction =>
              /\ call'[1].st.direction = -call[1].st.direction
              /\ call'[1].st.adjusted =
                     [i \in 1..3 |->
                         Max(0, Min(255, call[1].st.adjusted[i]
                                           + call[1].st.direction
                                               * call[1].st.step))]
              /\ get_contrast_ratio(call'[1].st.adjusted, call[1].background)
                   >= min_contrast

\* C21: for a corrected entry the initial direction is chosen once, from the
\* background alone: lighten (+1) when its luminance is below 0.5, darken
\* (-1) otherwise; during the search it changes only through the flip after
\* an accepted candidate.
C21_Direction ==
    /\ []DirectionFromBackground
    /\ [][DirectionFlipsOnAccept]_vars

\* a search on a light background that started by darkening and has
\* flipped to lightening after an accepted candidate
C21_Witness ==
    /\ call # None
    /\ call[1].at = "loop"
    /\ call[1].n >= 1
    /\ call[1].lighten = Some(FALSE)
    /\ 2 * get_luminance(call[1].background) >= LumScale
    /\ call[1].st.direction = 1

\* the entries of seq at the indices of S, in order
Restrict(seq, S) ==
    [p \in 1..Cardinality(S) |->
        seq[CHOOSE i \in S : Cardinality({j \in S : j < i}) = p - 1]]

\* C22: in batch mode a TranscriptionError on a file is reported and the
\* remaining files are still transcribed, and the results are the
\* successfully transcribed files in input order; out of batch mode the
\* first TranscriptionError propagates, no later file is transcribed, and
\* main exits with status 1 and saves nothing.
C22_BatchErrors ==
    call # None =>
        /\ \E failed \in SUBSET (1..Len(call[1].transcribed)) :
              /\ call[1].reported = Restrict(call[1].transcribed, failed)
              /\ call[1].results =
                     Restrict(call[1].transcribed,
                              (1..Len(call[1].transcribed)) \ failed)
        /\ call[1].transcribed =
               SubSeq(call[1].validated_files, 1, Len(call[1].transcribed))
        /\ (call[1].batch_mode /\ call[1].at \in {"loop", "returned"}) =>
              /\ call[1].raised = None
              /\ call[1].at = "returned"
                    => call[1].transcribed = call[1].validated_files
        /\ (~call[1].batch_mode /\ call[1].reported # <<>>) =>
              /\ call[1].at \in {"raised", "exited"}
              /\ Len(call[1].reported) = 1
              /\ call[1].raised =
                     Some([type |-> "TranscriptionError",
                           from |-> "transcribe_file",
                           path |-> call[1].reported[1]])
              /\ call[1].transcribed[Len(call[1].transcribed)]
                   = call[1].reported[1]
              /\ call[1].saved = <<>>
              /\ call[1].at = "exited" => call[1].status = Some(1)

\* out of batch mode, the second of three valid files failed after the first
\* was transcribed: main has exited with status 1, the third was never
\* transcribed and the result of the first was not saved
C22_Witness ==
    /\ call # None
    /\ ~call[1].batch_mode
    /\ call[1].at = "exited"
    /\ call[1].status = Some(1)
    /\ Len(call[1].validated_files) = 3
    /\ Len(call[1].transcribed) = 2
    /\ Len(call[1].results) = 1
    /\ call[1].reported = <<call[1].validated_files[2]>>
    /\ call[1].saved = <<>>

\* the colour at the end of the chosen direction: white when lightening,
\* black when darkening
Extreme == IF call[1].lighten = Some(TRUE) THEN <<255, 255, 255>>
           ELSE <<0, 0, 0>>

\* C23: whenever the extreme colour in the chosen direction meets the 4.5
\* target against the background, the colour adjust_color_for_contrast
\* returns for a colour below the target meets the target.
C23_ReachesTarget ==
    (call # None /\ call[1].at = "returned"
       /\ get_contrast_ratio(Extreme, call[1].background) >= min_contrast)
    => get_contrast_ratio(call[1].result[1], call[1].background)
         >= min_contrast

\* C24, as stated: after ensure_readable_colors color0 still equals
\* background.
C24_Color0IsBackground ==
    Ensured => colors[1][color(0)] = colors[1][k_background]

\* C24, amended: color0 is synthesized equal to background, background is
\* never corrected, and color0, whose ratio against the background is 1, is
\* corrected like every color* entry: afterwards it equals background only
\* if the search found no candidate, and otherwise meets the target.
C24_Color0Corrected ==
    Ensured =>
        /\ scheme[1][color(0)] = scheme[1][k_background]
        /\ colors[1][k_background] = scheme[1][k_background]
        /\ \/ colors[1][color(0)] = colors[1][k_background]
           \/ RatioToBackground(colors[1][color(0)]) >= min_contrast

\* the script printed a scheme whose color0 was moved away from the
\* background #0a0a0a
C24_Witness ==
    /\ Ensured
    /\ spc = "exited"
    /\ colors[1][k_background] = <<"#", "0", "a", "0", "a", "0", "a">>
    /\ colors[1][color(0)] # colors[1][k_background]
    /\ RatioToBackground(colors[1][color(0)]) >= min_contrast

\* C25, as stated: after ensure_readable_colors cursor and
\* selection_foreground still equal foreground.
C25_CopiesFollowForeground ==
    Ensured =>
        /\ colors[1][k_cursor] = colors[1][k_foreground]
        /\ colors[1][k_selection_foreground] = colors[1][k_foreground]

\* C25, amended: cursor and selection_foreground keep the foreground the
\* synthesizer gave them; foreground itself is corrected when its ratio is
\* below 4.5, so they equal the final foreground only when it was left
\* unchanged.
C25_CopiesKeepSynthesized ==
    Ensured =>
        /\ colors[1][k_cursor] = scheme[1][k_foreground]
        /\ colors[1][k_selection_foreground] = scheme[1][k_foreground]
        /\ colors[1][k_foreground] # scheme[1][k_foreground] =>
              /\ RatioToBackground(scheme[1][k_foreground]) < min_contrast
              /\ RatioToBackground(colors[1][k_foreground]) >= min_contrast
              /\ colors[1][k_cursor] # colors[1][k_foreground]

\* the brightest entry of the palette was below 4.5 against the darkest:
\* foreground was corrected, cursor and selection_foreground were not
C25_Witness ==
    /\ Ensured
    /\ spc = "exited"
    /\ RatioToBackground(scheme[1][k_foreground]) < min_contrast
    /\ colors[1][k_foreground] # scheme[1][k_foreground]
    /\ colors[1][k_cursor] = scheme[1][k_foreground]
    /\ colors[1][k_selection_foreground] = scheme[1][k_foreground]

\* C26: ensure_readable_colors applied again, with the same background, to
\* the scheme it returned gives that scheme back unchanged.
C26_Idempotent ==
    Ensured =>
        ensure_readable_colors(colors[1], hex_to_rgb(scheme[1][k_background]))
          = colors[1]

\* a first application that corrected one entry and left another one below
\* the target
C26_Witness ==
    /\ Ensured
    /\ \E n \in 0..15 : colors[1][color(n)] # scheme[1][color(n)]
    /\ \E n \in 0..15 :
          /\ colors[1][color(n)] = scheme[1][color(n)]
          /\ RatioToBackground(colors[1][color(n)]) < min_contrast

\* C27: whenever main has ended after it created the temporary script (by
\* return after success, after a failed extraction, after unparsable output,
\* or by an exception while writing an output file), the temporary script
\* does not exist; the script exists only while the try block is running.
C27_ScriptDeleted ==
    /\ Ended => temp_script = FALSE
    /\ temp_script => pc \in {"run", "kitty", "tmux", "nvim", "report"}

\* main raised while writing an output file, after the script had been created
\* and run, and the script is gone
C27_Witness ==
    /\ pc = "raised"
    /\ proc # None
    /\ temp_script = FALSE

\* C28: when the free space of the home directory is below the model's
\* estimated size plus 0.5 GB, the construction of the AudioTranscriber never
\* tries to load (or download) a model, holds no model, and ends by raising
\* ModelLoadError.
C28_DiskCheckAborts ==
    (/\ call[1].free # None
     /\ call[1].free[1] < model_sizes(call[1].model_name) + disk_buffer)
    => /\ call[1].attempts = 0
       /\ call[1].model = None
       /\ call[1].at # "constructed"
       /\ call[1].at \in {"load", "fallback", "failed"}
              => call[1].raised = Some("ModelLoadError")

\* the spinner threads that are still animating
Animating == {t \in 1..Len(call[1].threads) : call[1].threads[t].alive}

\* C29: at any moment of a run at most one spinner thread is animating, and
\* none is animating while no file is inside transcribe_file (between
\* files, after the loop, after a raise).
C29_SpinnersJoined ==
    /\ Cardinality(Animating) <= 1
    /\ call[1].at \in {"loop", "returned", "raised"} => Animating = {}

====
